---- MODULE Spec2Model ----
(***************************************************************************)
(* A model of hmdc-quotas: the HMDCQuotas library                          *)
(* (src/hmdcquotas/hmdcquotas.py) and the quotasUtil command line          *)
(* (src/scripts/quotasUtil.py).                                            *)
(*                                                                         *)
(* Every public operation is one action.  An action runs the whole call:   *)
(* it records the call, the answers the NetApp gave during it, the         *)
(* requests it sent to the NetApp in order (log) and what it returned or   *)
(* raised (ret).  The NetApp itself is outside the repository: each of its *)
(* answers is chosen freely among the shapes the code distinguishes.       *)
(*                                                                         *)
(* Python values are tagged records, so that values of different Python    *)
(* types can be compared.  A Python string that the code inspects          *)
(* character by character (a disk size) is a sequence of one-character     *)
(* strings; a message is a sequence of tokens, "a + b" is \o and           *)
(* "phrase in message" holds when the phrase is one of its tokens.         *)
(***************************************************************************)
EXTENDS Integers, Sequences, FiniteSets

VARIABLES pc, call, answers, log, ret

vars == <<pc, call, answers, log, ret>>

\* The longest disk size string convert_to_kb is tried on.
MaxLen == 3

-----------------------------------------------------------------------------
(* Python values *)

None == [t |-> "None"]
Str(tokens) == [t |-> "str", s |-> tokens]
Lit(text) == Str(<<text>>)
PyInt(limbs) == [t |-> "int", n |-> limbs]
\* A float is kept exactly, as num / den.
PyFloat(num, den) == [t |-> "float", fn |-> num, fd |-> den]

\* (a, b) as returned by a function, and an exception leaving it.
Tuple(ok, val) == [kind |-> "return", ok |-> ok, val |-> val]
Raise(exc) == [kind |-> "raise", exc |-> exc]
NoRet == [kind |-> "none"]

-----------------------------------------------------------------------------
(* Python integers are unbounded: they are kept as little-endian sequences *)
(* of base-1024 limbs, without leading zero limbs (zero is <<0>>).         *)

Base == 2 ^ 10

RECURSIVE Limbs(_)
Limbs(k) == IF k < Base THEN <<k>> ELSE <<k % Base>> \o Limbs(k \div Base)

RECURSIVE Norm(_)
Norm(a) ==
    IF Len(a) > 1 /\ a[Len(a)] = 0 THEN Norm(SubSeq(a, 1, Len(a) - 1)) ELSE a

\* a * k for a limb sequence a and a factor k < Base * Base.
RECURSIVE MulCarry(_, _, _)
MulCarry(a, k, carry) ==
    IF a = <<>>
    THEN IF carry = 0 THEN <<>> ELSE Limbs(carry)
    ELSE LET t == Head(a) * k + carry
         IN  <<t % Base>> \o MulCarry(Tail(a), k, t \div Base)

BigMulSmall(a, k) == Norm(MulCarry(a, k, 0))

\* a * b for limb sequences: schoolbook, one limb of b at a time.
RECURSIVE AddCarry(_, _, _)
AddCarry(a, b, carry) ==
    IF a = <<>> /\ b = <<>>
    THEN IF carry = 0 THEN <<>> ELSE <<carry>>
    ELSE LET x == IF a = <<>> THEN 0 ELSE Head(a)
             y == IF b = <<>> THEN 0 ELSE Head(b)
             t == x + y + carry
         IN  <<t % Base>> \o AddCarry(IF a = <<>> THEN a ELSE Tail(a),
                                      IF b = <<>> THEN b ELSE Tail(b),
                                      t \div Base)

BigAdd(a, b) == Norm(AddCarry(a, b, 0))

RECURSIVE BigMul(_, _)
BigMul(a, b) ==
    IF b = <<>> THEN <<0>>
    ELSE BigAdd(BigMulSmall(a, Head(b)), <<0>> \o BigMul(a, Tail(b)))

\* a // k for a limb sequence a and a divisor k < Base, from the top limb down.
RECURSIVE DivLimbs(_, _, _)
DivLimbs(a, k, rem) ==
    IF a = <<>> THEN <<>>
    ELSE LET cur == rem * Base + a[Len(a)]
         IN  DivLimbs(SubSeq(a, 1, Len(a) - 1), k, cur % k) \o <<cur \div k>>

BigDivSmall(a, k) == Norm(DivLimbs(a, k, 0))

-----------------------------------------------------------------------------
(* Characters, as re and str see them *)

Digits == {"0", "1", "5"}
Letters == {"K", "k", "M", "G", "g", "T", "B", "P", "x"}
Others == {"-"}
Alphabet == Digits \cup Letters \cup Others

IsDigit(c) == c \in {"0", "1", "2", "3", "4", "5", "6", "7", "8", "9"}

\* [a-z] under re.I
IsLetter(c) ==
    c \in {"K", "k", "M", "m", "G", "g", "T", "t", "B", "b", "P", "p",
           "E", "e", "Z", "z", "Y", "y", "X", "x"}

DigitVal(c) ==
    CASE c = "0" -> 0 [] c = "1" -> 1 [] c = "2" -> 2 [] c = "3" -> 3
      [] c = "4" -> 4 [] c = "5" -> 5 [] c = "6" -> 6 [] c = "7" -> 7
      [] c = "8" -> 8 [] c = "9" -> 9

\* str.upper() on one character
Upper(c) ==
    CASE c = "k" -> "K" [] c = "m" -> "M" [] c = "g" -> "G" [] c = "t" -> "T"
      [] c = "b" -> "B" [] c = "p" -> "P" [] c = "e" -> "E" [] c = "z" -> "Z"
      [] c = "y" -> "Y" [] c = "x" -> "X" [] OTHER -> c

\* The length of the longest run of characters of the class in s from
\* position i on: what a greedy "+" consumes.
InClass(c, cls) == IF cls = "0-9" THEN IsDigit(c) ELSE IsLetter(c)

RECURSIVE RunLen(_, _, _)
RunLen(s, i, cls) ==
    IF i <= Len(s) /\ InClass(s[i], cls) THEN 1 + RunLen(s, i + 1, cls) ELSE 0

\* int(digits): the decimal value, as limbs.
RECURSIVE ParseInt(_)
ParseInt(ds) ==
    IF ds = <<>> THEN <<0>>
    ELSE BigAdd(BigMulSmall(ParseInt(SubSeq(ds, 1, Len(ds) - 1)), 10),
                <<DigitVal(ds[Len(ds)])>>)

-----------------------------------------------------------------------------
(* HMDCQuotas: class variables *)

DEFAULT_QUOTA == <<"5", "G">>

\* The table with decimal multipliers.
FILESIZES_decimal ==
    [u \in {"B", "K", "M", "G", "T"} |->
        CASE u = "B" -> PyFloat(<<1>>, <<1000>>)
          [] u = "K" -> PyInt(Limbs(1))
          [] u = "M" -> PyInt(Limbs(1000))
          [] u = "G" -> PyInt(Limbs(1000000))
          [] u = "T" -> PyInt(Limbs(1000000000))]

FILESIZES ==
    [u \in {"B", "K", "M", "G", "T"} |->
        CASE u = "B" -> PyFloat(<<1>>, <<0, 1>>)
          [] u = "K" -> PyInt(Limbs(1))
          [] u = "M" -> PyInt(Limbs(1024))
          [] u = "G" -> PyInt(Limbs(1048576))
          [] u = "T" -> PyInt(Limbs(1073741824))]

\* The tuple without its first unit.
JERK_FILESIZES_short == {"E", "Z", "Y"}

JERK_FILESIZES == {"P", "E", "Z", "Y"}

VServers == {"nc-rce-svm01-mgmt", "nc-hmdc-svm01-mgmt", "nc-rshiny-svm01-mgmt"}

VOLUMES ==
    [v \in VServers |->
        CASE v = "nc-rce-svm01-mgmt" ->
                 <<"projects", "projects_nobackup", "projects_ci3",
                   "projects_nobackup_ci3">>
          [] v = "nc-hmdc-svm01-mgmt" -> <<"www">>
          [] v = "nc-rshiny-svm01-mgmt" -> <<"rshiny_ci3">>]

-----------------------------------------------------------------------------
(* HMDCQuotas.convert_to_kb *)

\* re.match(r"([0-9]+)([a-z]+)", disk_limit, re.I): the two groups, or
\* <<>> when the string does not start with digits followed by a letter.
ReMatch(s) ==
    LET nd == RunLen(s, 1, "0-9")
        nl == RunLen(s, nd + 1, "a-z")
    IN  IF nd >= 1 /\ nl >= 1
        THEN <<SubSeq(s, 1, nd), SubSeq(s, nd + 1, nd + nl)>>
        ELSE <<>>

\* size * FILESIZES[unit], for an int size
PyMul(size, factor) ==
    IF factor.t = "int"
    THEN PyInt(BigMul(size, factor.n))
    ELSE PyFloat(BigMul(size, factor.fn), factor.fd)

convert_to_kb(disk_limit) ==
    LET items == ReMatch(disk_limit)
    IN  IF items = <<>>
        THEN Tuple(FALSE, Lit("Unrecognized disk quota format."))
        ELSE LET size == ParseInt(items[1])
                 unit == Upper(items[2][1])
             IN  IF unit \in JERK_FILESIZES
                 THEN Tuple(FALSE, Lit("Enter quota as terabytes or lower."))
                 ELSE IF unit \in DOMAIN FILESIZES
                 THEN Tuple(TRUE, PyMul(size, FILESIZES[unit]))
                 ELSE Tuple(FALSE, Lit("Unrecognized disk size unit."))

\* Every string over the alphabet of at most n characters.
RECURSIVE StringsUpTo(_)
StringsUpTo(n) ==
    IF n = 0 THEN {<<>>}
    ELSE LET shorter == StringsUpTo(n - 1)
         IN  shorter \cup {Append(s, c) : s \in shorter, c \in Alphabet}

-----------------------------------------------------------------------------
(* Messages, dictionaries and the NetApp's answers *)

\* phrase in message
Contains(message, phrase) == \E i \in 1..Len(message) : message[i] = phrase

EmptyDict == [k \in {} |-> None]
DictSet(d, k, v) == [x \in DOMAIN d \cup {k} |-> IF x = k THEN v ELSE d[x]]
DictLen(d) == Cardinality(DOMAIN d)

\* What a function of the model hands back: its result and the requests it
\* sent to the NetApp, in order.
Done(r, requests) == [ret |-> r, log |-> requests]

\* The element svm.invoke() returns: results_reason() is reason, and
\* child_get_string(name) reads entry.
Invoke(reason, entry) == [t |-> "invoke", reason |-> reason, entry |-> entry]
NoEntry == [none |-> TRUE]
Entry(disk, files) == [disk |-> disk, files |-> files]

Found(entry) == Invoke(None, entry)
Failed(reason) == Invoke(Str(reason), NoEntry)

QuotaRequest(api, vserver, volume, group) ==
    [api |-> api, vserver |-> vserver, volume |-> volume, target |-> group]
QuotaLimitRequest(api, vserver, volume, group, disk_limit, file_limit) ==
    [api |-> api, vserver |-> vserver, volume |-> volume, target |-> group,
     disk |-> disk_limit, files |-> file_limit]
ResizeRequest(vserver, volume) ==
    [api |-> <<"quota-resize">>, vserver |-> vserver, volume |-> volume]

-----------------------------------------------------------------------------
(* HMDCQuotas._netapp_invoke, _netapp_resize *)

\* self.vservers has one connection per key of VOLUMES.
HasConnection(vserver) == vserver \in DOMAIN VOLUMES

NetAppCommand(action) ==
    IF Contains(action, "add") THEN <<"quota-", "add", "-entry">>
    ELSE IF Contains(action, "delete") THEN <<"quota-", "delete", "-entry">>
    ELSE IF Contains(action, "modify") THEN <<"quota-", "modify", "-entry">>
    ELSE IF Contains(action, "get") \/ Contains(action, "search")
    THEN <<"quota-", "get", "-entry">>
    ELSE <<>>

\* reply is what the NetApp answers if a request is sent.
netapp_invoke(action, group, volume, vserver, disk_limit, file_limit, reply) ==
    IF ~HasConnection(vserver) THEN Done(Raise("KeyError"), <<>>)
    ELSE LET command == NetAppCommand(action)
         IN  IF command = <<>>
             THEN Done(Tuple(FALSE, Lit("Unknown action.")), <<>>)
             ELSE IF Contains(command, "delete") \/ Contains(command, "get")
             THEN Done(Tuple(TRUE, reply),
                       <<QuotaRequest(command, vserver, volume, group)>>)
             ELSE Done(Tuple(TRUE, reply),
                       <<QuotaLimitRequest(command, vserver, volume, group,
                                           disk_limit, file_limit)>>)

netapp_resize(volume, vserver) ==
    IF ~HasConnection(vserver) THEN Done(Raise("KeyError"), <<>>)
    ELSE Done(Tuple(TRUE, None), <<ResizeRequest(vserver, volume)>>)

-----------------------------------------------------------------------------
(* HMDCQuotas.humanize_quotas, get_vserver, group_lookup *)

\* humanize.naturalsize(bytes, gnu=True) is a library outside the
\* repository: its result is kept as the byte count it was given.
NaturalSize(bytes) == [naturalsize |-> bytes]

\* The disk-limit of an entry is a count of KB; its soft-file-limit is a
\* count or "-".
humanize_quotas(invoke) ==
    LET disk_quota == NaturalSize(BigMulSmall(ParseInt(invoke.entry.disk), 1024))
        file_quota == IF invoke.entry.files = <<"-">>
                      THEN None
                      ELSE PyInt(ParseInt(invoke.entry.files))
    IN  <<disk_quota, file_quota>>

\* order is the order in which VOLUMES.iteritems() yields the vservers.
RECURSIVE get_vserver_from(_, _, _)
get_vserver_from(volume_to_find, order, i) ==
    IF i > Len(order)
    THEN Tuple(FALSE, Str(<<"Did not find a matching vserver for volume \"",
                            volume_to_find, "\".">>))
    ELSE IF \E j \in 1..Len(VOLUMES[order[i]]) :
                VOLUMES[order[i]][j] = volume_to_find
    THEN Tuple(TRUE, Lit(order[i]))
    ELSE get_vserver_from(volume_to_find, order, i + 1)

\* The lookup that gives up after the first vserver.
get_vserver_first_only(volume_to_find, order) ==
    IF \E j \in 1..Len(VOLUMES[order[1]]) : VOLUMES[order[1]][j] = volume_to_find
    THEN Tuple(TRUE, Lit(order[1]))
    ELSE Tuple(FALSE, Str(<<"Did not find a matching vserver for volume \"",
                            volume_to_find, "\".">>))

get_vserver(volume_to_find, order) == get_vserver_from(volume_to_find, order, 1)

\* The classification that compares the reason with the phrase instead
\* of searching the phrase in it.
Classify_exact_reason(invoke) ==
    IF invoke.reason = None
    THEN Tuple(TRUE, invoke)
    ELSE IF invoke.reason.s = <<"entry doesn't exist">>
    THEN Tuple(FALSE, None)
    ELSE Tuple(FALSE, invoke.reason)

Classify(invoke) ==
    IF invoke.reason = None
    THEN Tuple(TRUE, invoke)
    ELSE IF Contains(invoke.reason.s, "entry doesn't exist")
    THEN Tuple(FALSE, None)
    ELSE Tuple(FALSE, invoke.reason)

\* group_lookup once _netapp_invoke has returned (or raised) sent.
LookedUp(sent) ==
    IF sent.ret.kind = "raise" THEN sent
    ELSE IF ~sent.ret.ok THEN Done(Tuple(FALSE, sent.ret.val), sent.log)
    ELSE Done(Classify(sent.ret.val), sent.log)

group_lookup(group, volume, vserver, reply) ==
    LookedUp(netapp_invoke(<<"search">>, group, volume, vserver,
                           None, None, reply))

-----------------------------------------------------------------------------
(* HMDCQuotas.modify *)

\* disk_limit / 16 in Python 2: floor division of an int, division of a
\* float.
PyDiv16(x) ==
    IF x.t = "int"
    THEN PyInt(BigDivSmall(x.n, 16))
    ELSE PyFloat(x.fn, BigMulSmall(x.fd, 16))

\* modify once _netapp_resize has returned resized.
Resized(resized, requests) ==
    IF resized.ret.kind = "raise"
    THEN Done(resized.ret, requests \o resized.log)
    ELSE IF resized.ret.ok
    THEN Done(Tuple(TRUE, None), requests \o resized.log)
    ELSE Done(Tuple(FALSE, Lit("Unknown error with resize.")),
              requests \o resized.log)

\* modify once _netapp_invoke has returned sent.  success is the one
\* convert_to_kb returned: the result of _netapp_invoke is assigned to
\* "sucess", which nothing reads.
Changed(sent, success, volume, vserver) ==
    IF sent.ret.kind = "raise" THEN sent
    ELSE IF ~success THEN Done(Tuple(FALSE, sent.ret.val), sent.log)
    ELSE IF sent.ret.val.t # "invoke"
    THEN Done(Raise("AttributeError"), sent.log)
    ELSE IF sent.ret.val.reason = None
    THEN Resized(netapp_resize(volume, vserver), sent.log)
    ELSE Done(Tuple(FALSE, sent.ret.val.reason), sent.log)

\* modify once convert_to_kb has returned converted.
Converted(converted, action, group, volume, vserver, file_limit, reply) ==
    IF ~converted.ok THEN Done(Tuple(FALSE, converted.val), <<>>)
    ELSE Changed(netapp_invoke(action, group, volume, vserver, converted.val,
                               IF file_limit = None
                               THEN PyDiv16(converted.val)
                               ELSE file_limit,
                               reply),
                 converted.ok, volume, vserver)

\* disk_limit is None or a string, file_limit is None or an int.
modify(action, group, volume, vserver, disk_limit, file_limit, reply) ==
    Converted(convert_to_kb(IF disk_limit = None THEN DEFAULT_QUOTA
                            ELSE disk_limit.s),
              action, group, volume, vserver, file_limit, reply)

-----------------------------------------------------------------------------
(* HMDCQuotas.search_volumes, search_vservers *)

\* replies[volume] is what the NetApp answers to a lookup on the volume.
\* The loop over VOLUMES[vserver], from its i-th volume on, and its body
\* once group_lookup has returned looked.
RECURSIVE search_volumes_from(_, _, _, _, _, _)
RECURSIVE VolumeSearched(_, _, _, _, _, _, _)
\* The loop body that goes on to the next volume after any failed lookup.
VolumeSearched_ignores_errors(looked, group, vserver, replies, i, matches, sent) ==
    IF looked.ret.kind = "raise" THEN Done(looked.ret, sent \o looked.log)
    ELSE IF looked.ret.ok
    THEN search_volumes_from(
             group, vserver, replies, i + 1,
             DictSet(matches, VOLUMES[vserver][i],
                     humanize_quotas(looked.ret.val)),
             sent \o looked.log)
    ELSE search_volumes_from(group, vserver, replies, i + 1, matches,
                             sent \o looked.log)

VolumeSearched(looked, group, vserver, replies, i, matches, sent) ==
    IF looked.ret.kind = "raise" THEN Done(looked.ret, sent \o looked.log)
    ELSE IF looked.ret.ok
    THEN search_volumes_from(
             group, vserver, replies, i + 1,
             DictSet(matches, VOLUMES[vserver][i],
                     humanize_quotas(looked.ret.val)),
             sent \o looked.log)
    ELSE IF looked.ret.val # None
    THEN Done(Tuple(FALSE, looked.ret.val), sent \o looked.log)
    ELSE search_volumes_from(group, vserver, replies, i + 1, matches,
                             sent \o looked.log)

search_volumes_from(group, vserver, replies, i, matches, sent) ==
    IF i > Len(VOLUMES[vserver]) THEN Done(Tuple(TRUE, matches), sent)
    ELSE VolumeSearched(group_lookup(group, VOLUMES[vserver][i], vserver,
                                     replies[VOLUMES[vserver][i]]),
                        group, vserver, replies, i, matches, sent)

search_volumes(group, vserver, replies) ==
    IF vserver \notin DOMAIN VOLUMES THEN Done(Raise("KeyError"), <<>>)
    ELSE search_volumes_from(group, vserver, replies, 1, EmptyDict, <<>>)

\* The loop over VOLUMES.iterkeys(), which yields the vservers in order,
\* and its body once search_volumes has returned found.
RECURSIVE search_all_from(_, _, _, _, _, _)
RECURSIVE VserverSearched(_, _, _, _, _, _, _)
\* The loop body that keeps the empty result sets.
VserverSearched_unfiltered(found, group, order, replies, i, matches, sent) ==
    IF found.ret.kind = "raise" THEN Done(found.ret, sent \o found.log)
    ELSE IF ~found.ret.ok
    THEN Done(Tuple(FALSE, found.ret.val), sent \o found.log)
    ELSE search_all_from(group, order, replies, i + 1,
                         DictSet(matches, order[i], found.ret.val),
                         sent \o found.log)

VserverSearched(found, group, order, replies, i, matches, sent) ==
    IF found.ret.kind = "raise" THEN Done(found.ret, sent \o found.log)
    ELSE IF ~found.ret.ok
    THEN Done(Tuple(FALSE, found.ret.val), sent \o found.log)
    ELSE IF DictLen(found.ret.val) > 0
    THEN search_all_from(group, order, replies, i + 1,
                         DictSet(matches, order[i], found.ret.val),
                         sent \o found.log)
    ELSE search_all_from(group, order, replies, i + 1, matches,
                         sent \o found.log)

search_all_from(group, order, replies, i, matches, sent) ==
    IF i > Len(order) THEN Done(Tuple(TRUE, matches), sent)
    ELSE VserverSearched(search_volumes(group, order[i], replies),
                         group, order, replies, i, matches, sent)

\* search_vservers with a volume, once group_lookup has returned looked.
OneSearched(looked, volume, vserver) ==
    IF looked.ret.kind = "raise" THEN looked
    ELSE IF looked.ret.ok
    THEN Done(Tuple(TRUE,
                    DictSet(EmptyDict, vserver,
                            DictSet(EmptyDict, volume,
                                    humanize_quotas(looked.ret.val)))),
              looked.log)
    ELSE IF looked.ret.val # None
    THEN Done(Tuple(FALSE, looked.ret.val), looked.log)
    ELSE Done(Tuple(TRUE, EmptyDict), looked.log)

\* search_vservers with a volume, once get_vserver has returned located.
Located(located, group, volume, replies) ==
    IF ~located.ok THEN Done(Tuple(FALSE, located.val), <<>>)
    ELSE OneSearched(group_lookup(group, volume, located.val.s[1],
                                  replies[volume]),
                     volume, located.val.s[1])

\* volume is None or a string.
search_vservers(group, volume, order, replies) ==
    IF volume = None
    THEN search_all_from(group, order, replies, 1, EmptyDict, <<>>)
    ELSE Located(get_vserver(volume.s[1], order), group, volume.s[1], replies)

-----------------------------------------------------------------------------
(* quotasUtil: modify_quota, search_quotas, print_quotas, the script *)

\* args is the argparse namespace: action, group, volume (None or a
\* string), size (None or a string), files (None or an int).
ModifyAction(letter) ==
    CASE letter = "A" -> <<"add">>
      [] letter = "D" -> <<"delete">>
      [] letter = "M" -> <<"modify">>
      [] OTHER -> <<>>

\* modify_quota once qh.modify has returned changed.
QuotaModified(changed) ==
    IF changed.ret.kind = "raise" THEN changed
    ELSE IF ~changed.ret.ok
    THEN Done(Tuple(FALSE,
                    Str(<<"An error occurred while modifying quota: ">>
                        \o changed.ret.val.s)),
              changed.log)
    ELSE Done(Tuple(TRUE, None), changed.log)

\* modify_quota once qh.get_vserver has returned located.
VserverFound(located, args, reply) ==
    IF ~located.ok THEN Done(Tuple(FALSE, located.val), <<>>)
    ELSE IF ModifyAction(args.action) = <<>>
    THEN Done(Tuple(FALSE, Lit("Unhandled action.")), <<>>)
    ELSE QuotaModified(modify(ModifyAction(args.action), args.group,
                              args.volume.s[1], located.val.s[1],
                              args.size, args.files, reply))

\* The function that falls back on a volume when none is given.
modify_quota_default_volume(args, order, reply) ==
    VserverFound(get_vserver(IF args.volume = None THEN "projects"
                             ELSE args.volume.s[1], order),
                 [args EXCEPT !.volume = IF args.volume = None
                                         THEN Lit("projects") ELSE args.volume],
                 reply)

modify_quota(args, order, reply) ==
    IF args.volume = None
    THEN Done(Tuple(FALSE, Lit("Error: You need to specify a volume.")), <<>>)
    ELSE VserverFound(get_vserver(args.volume.s[1], order), args, reply)

\* vserver.split('-')[1]
SvmOf(vserver) ==
    CASE vserver = "nc-rce-svm01-mgmt" -> "rce"
      [] vserver = "nc-hmdc-svm01-mgmt" -> "hmdc"
      [] vserver = "nc-rshiny-svm01-mgmt" -> "rshiny"

\* What print_quotas prints: the header, then one row per vserver and
\* volume, in the order the dictionaries yield them (kept as a set).
print_quotas(group, results) ==
    <<[header |-> <<"GROUP", "VOLUME", "SVM", "DISK QUOTA", "FILE QUOTA">>,
       rows |-> UNION {{<<group, name, SvmOf(vserver), results[vserver][name]>> :
                           name \in DOMAIN results[vserver]} :
                       vserver \in DOMAIN results}]>>

\* What a part of the script did: what it printed, the requests it sent,
\* and the exception that ended it, if any.
Ran(printed, requests, exc) == [out |-> printed, log |-> requests, exc |-> exc]

\* search_quotas once qh.search_vservers has returned searched.
Searched(searched, group) ==
    IF searched.ret.kind = "raise"
    THEN Ran(<<>>, searched.log, searched.ret.exc)
    ELSE IF ~searched.ret.ok
    THEN Ran(<<Str(<<"Error: ">> \o searched.ret.val.s)>>, searched.log, "")
    ELSE IF DictLen(searched.ret.val) < 1
    THEN Ran(<<Str(<<"No matches for group \"", group, "\" were found.">>)>>,
             searched.log, "")
    ELSE Ran(print_quotas(group, searched.ret.val), searched.log, "")

search_quotas(args, order, replies) ==
    Searched(search_vservers(args.group, args.volume, order, replies),
             args.group)

\* The names bound in the script's namespace when line 142 runs: its
\* imports, its functions and its assignments.
ScriptNames ==
    {"HMDCLogger", "hmdcquotas", "argparse", "modify_quota", "print_quotas",
     "search_quotas", "parser", "args", "debug_level", "hmdclog"}

\* Lines 153-154, once search_quotas has run.
ModifiedAndShown(shown, requests) ==
    Ran(<<Lit("Quota successfully modified.")>> \o shown.out,
        requests \o shown.log, shown.exc)

\* Lines 148-156, once modify_quota has returned changed.
QuotaChanged(changed, args, order, replies) ==
    IF changed.ret.kind = "raise"
    THEN Ran(<<>>, changed.log, changed.ret.exc)
    ELSE IF changed.ret.ok
    THEN IF args.action = "D"
         THEN Ran(<<Lit("Quota successfully deleted.")>>, changed.log, "")
         ELSE ModifiedAndShown(search_quotas(args, order, replies), changed.log)
    ELSE Ran(<<changed.ret.val>>, changed.log, "")

\* Lines 144-156, with qh bound.
Dispatch(args, order, reply, replies) ==
    IF args.action = "S" THEN search_quotas(args, order, replies)
    ELSE QuotaChanged(modify_quota(args, order, reply), args, order, replies)

\* The script after argparse accepted the arguments: qh = HMDCQuotas(...)
\* looks the name up in the script's namespace.
Script(args, order, reply, replies) ==
    IF "HMDCQuotas" \notin ScriptNames
    THEN Ran(<<>>, <<>>, "NameError")
    ELSE Dispatch(args, order, reply, replies)

-----------------------------------------------------------------------------
(* The inputs the calls are tried on *)

Groups == {"econ", "gov"}

AllVolumes == UNION {{VOLUMES[v][j] : j \in 1..Len(VOLUMES[v])} : v \in VServers}

\* The choices of --volume and of --action.
CliVolumes == {"projects", "projects_nobackup", "projects_ci3",
               "projects_nobackup_ci3", "www"}
CliActions == {"A", "D", "M", "S"}

SomeVServers == VServers \cup {"nc-gone-svm01-mgmt"}
SomeVolumes == AllVolumes \cup {"scratch"}

\* The orders in which a dictionary of the vservers may be iterated.
Orders ==
    {o \in [1..Cardinality(VServers) -> VServers] :
        \A a, b \in DOMAIN o : a # b => o[a] # o[b]}

SomeActions == {<<"add">>, <<"delete">>, <<"modify">>, <<"search">>,
                <<"get">>, <<"resize">>}

SomeSizes == {None, Str(<<"5", "G">>), Str(<<"1", "T">>), Str(<<"7", "B">>),
              Str(<<"2", "0", "m">>), Str(<<"5", "P">>), Str(<<"G", "5">>)}
SomeFiles == {None, PyInt(<<100>>)}

SomeEntries == {Entry(<<"5", "2", "4", "2", "8", "8", "0">>,
                      <<"3", "2", "7", "6", "8", "0">>),
                Entry(<<"1", "0", "2", "4">>, <<"-">>)}

NotFoundReasons == {<<"entry doesn't exist">>,
                    <<"quota ", "entry doesn't exist", " on volume">>}
ErrorReasons == {<<"permission denied">>, <<>>}
ChangeReasons == {<<"duplicate entry">>, <<"entry doesn't exist">>}

\* An answer to one lookup, and to one change.
LookupReplies ==
    {Found(e) : e \in SomeEntries}
        \cup {Failed(r) : r \in NotFoundReasons \cup ErrorReasons}
ChangeReplies == {Found(NoEntry)} \cup {Failed(r) : r \in ChangeReasons}

\* Answers to the lookups of a search over several volumes: on each
\* volume the group is found, is absent, or the lookup fails with an
\* error that names the volume.
Kinds == {"found", "absent", "error"}
RepliesOf(kinds, entry) ==
    [v \in DOMAIN kinds |->
        CASE kinds[v] = "found" -> Found(entry)
          [] kinds[v] = "absent" -> Failed(<<"entry doesn't exist">>)
          [] kinds[v] = "error" -> Failed(<<"volume ", v, " is offline">>)]
SearchReplies(volumes) ==
    {RepliesOf(k, e) : k \in [volumes -> Kinds], e \in SomeEntries}

NoReply == [none |-> TRUE]
Answers(reply, replies) == [change |-> reply, lookup |-> replies]
NoAnswers == Answers(NoReply, EmptyDict)

-----------------------------------------------------------------------------
(* The calls *)

Idle == [op |-> "idle"]

Init ==
    /\ pc = "idle"
    /\ call = Idle
    /\ answers = NoAnswers
    /\ log = <<>>
    /\ ret = NoRet

\* The caller takes the result; the next call starts from scratch.
Return ==
    /\ pc = "done"
    /\ pc' = "idle"
    /\ call' = Idle
    /\ answers' = NoAnswers
    /\ log' = <<>>
    /\ ret' = NoRet

Finish(c, a, done) ==
    /\ call' = c
    /\ answers' = a
    /\ log' = done.log
    /\ ret' = done.ret
    /\ pc' = "done"

ConvertToKb ==
    /\ pc = "idle"
    /\ \E s \in StringsUpTo(MaxLen) :
        Finish([op |-> "convert_to_kb", disk_limit |-> s], NoAnswers,
               Done(convert_to_kb(s), <<>>))

GetVserver ==
    /\ pc = "idle"
    /\ \E volume \in SomeVolumes, order \in Orders :
        Finish([op |-> "get_vserver", volume |-> volume, order |-> order],
               NoAnswers, Done(get_vserver(volume, order), <<>>))

GroupLookup ==
    /\ pc = "idle"
    /\ \E group \in Groups, volume \in {"projects", "www"},
          vserver \in SomeVServers, reply \in LookupReplies :
        Finish([op |-> "group_lookup", group |-> group, volume |-> volume,
                vserver |-> vserver],
               Answers(NoReply, DictSet(EmptyDict, volume, reply)),
               group_lookup(group, volume, vserver, reply))

Modify ==
    /\ pc = "idle"
    /\ \E action \in SomeActions, group \in Groups,
          volume \in {"projects", "www"}, vserver \in SomeVServers,
          disk_limit \in SomeSizes, file_limit \in SomeFiles,
          reply \in ChangeReplies :
        Finish([op |-> "modify", action |-> action, group |-> group,
                volume |-> volume, vserver |-> vserver,
                disk_limit |-> disk_limit, file_limit |-> file_limit],
               Answers(reply, EmptyDict),
               modify(action, group, volume, vserver, disk_limit, file_limit,
                      reply))

SearchVolumes ==
    /\ pc = "idle"
    /\ \E group \in Groups, vserver \in SomeVServers :
        \E replies \in SearchReplies(IF vserver \in VServers
                                     THEN {VOLUMES[vserver][j] :
                                              j \in 1..Len(VOLUMES[vserver])}
                                     ELSE {}) :
            Finish([op |-> "search_volumes", group |-> group,
                    vserver |-> vserver],
                   Answers(NoReply, replies),
                   search_volumes(group, vserver, replies))

SearchVservers ==
    /\ pc = "idle"
    /\ \E group \in Groups, order \in Orders :
        \/ \E replies \in SearchReplies(AllVolumes) :
              Finish([op |-> "search_vservers", group |-> group,
                      volume |-> None, order |-> order],
                     Answers(NoReply, replies),
                     search_vservers(group, None, order, replies))
        \/ \E volume \in SomeVolumes, reply \in LookupReplies :
              Finish([op |-> "search_vservers", group |-> group,
                      volume |-> Lit(volume), order |-> order],
                     Answers(NoReply, DictSet(EmptyDict, volume, reply)),
                     search_vservers(group, Lit(volume), order,
                                     DictSet(EmptyDict, volume, reply)))

SomeArgs(actions, volumes) ==
    [action : actions, group : Groups,
     volume : {None} \cup {Lit(v) : v \in volumes},
     size : {None, Str(<<"5", "G">>), Str(<<"5", "P">>)},
     files : SomeFiles]

\* modify_quota, called with a handle.
ModifyQuota ==
    /\ pc = "idle"
    /\ \E args \in SomeArgs(CliActions, SomeVolumes), order \in Orders,
          reply \in ChangeReplies :
        Finish([op |-> "modify_quota", args |-> args, order |-> order],
               Answers(reply, EmptyDict),
               modify_quota(args, order, reply))

\* What the shell sees of a run.
Exit(ran) ==
    Done(IF ran.exc = "" THEN [kind |-> "exit", out |-> ran.out]
         ELSE [kind |-> "raise", exc |-> ran.exc, out |-> ran.out],
         ran.log)

CliReplies(args, looked) ==
    IF args.volume = None
    THEN [v \in AllVolumes |-> looked]
    ELSE DictSet(EmptyDict, args.volume.s[1], looked)

\* One run of the script, with arguments argparse accepts.
CliRun ==
    /\ pc = "idle"
    /\ \E args \in SomeArgs(CliActions, CliVolumes), order \in Orders,
          reply \in ChangeReplies, looked \in {Found(e) : e \in SomeEntries} :
        Finish([op |-> "quotasUtil", args |-> args, order |-> order],
               Answers(reply, CliReplies(args, looked)),
               Exit(Script(args, order, reply, CliReplies(args, looked))))

Next ==
    \/ ConvertToKb
    \/ GetVserver
    \/ GroupLookup
    \/ Modify
    \/ SearchVolumes
    \/ SearchVservers
    \/ ModifyQuota
    \/ CliRun
    \/ Return

Spec == Init /\ [][Next]_vars

-----------------------------------------------------------------------------
(* Properties of HMDCQuotas.modify *)

IsCall(name) == pc = "done" /\ call.op = name

ChangeCommands == {<<"quota-", "add", "-entry">>, <<"quota-", "delete", "-entry">>,
                   <<"quota-", "modify", "-entry">>}
GetCommand == <<"quota-", "get", "-entry">>
IsChange(request) == request.api \in ChangeCommands
IsGet(request) == request.api = GetCommand
IsResize(request) == request.api = <<"quota-resize">>
Resizes == {i \in 1..Len(log) : IsResize(log[i])}

\* C1: in modify, a quota-resize is invoked exactly once and only after
\* the quota change request (add, delete or modify) for the same volume
\* and vserver returned with no error reason; never before the change
\* request, never when it returned an error reason, never when no change
\* request was sent; and modify returns (True, None) only when the resize
\* was invoked.
C1_ResizeOnlyAfterChange ==
    IsCall("modify") =>
        /\ Cardinality(Resizes) <= 1
        /\ \A i \in Resizes :
              /\ i = 2
              /\ IsChange(log[1])
              /\ log[1].volume = log[i].volume
              /\ log[1].vserver = log[i].vserver
              /\ log[i].volume = call.volume
              /\ log[i].vserver = call.vserver
              /\ answers.change.reason = None
        /\ (Len(log) >= 1 /\ IsChange(log[1]) /\ answers.change.reason = None)
              => Cardinality(Resizes) = 1
        /\ ret = Tuple(TRUE, None) => Resizes # {}

\* The conversion errors of convert_to_kb.
FormatError == Tuple(FALSE, Lit("Unrecognized disk quota format."))
TooLargeError == Tuple(FALSE, Lit("Enter quota as terabytes or lower."))
UnitError == Tuple(FALSE, Lit("Unrecognized disk size unit."))
ConversionErrors == {FormatError, TooLargeError, UnitError}

KnownActionWords == {"add", "delete", "modify", "get", "search"}
Recognised(action) == \E i \in 1..Len(action) : action[i] \in KnownActionWords

\* The sizes of SomeSizes that convert_to_kb cannot convert, with the
\* error each one gives.
BadSizes == {Str(<<"5", "P">>), Str(<<"G", "5">>)}
BadSizeError(size) ==
    IF size = Str(<<"5", "P">>) THEN TooLargeError ELSE FormatError

\* C2: modify always returns a pair (success, message).  When the disk
\* size cannot be converted it returns (False, the conversion error) and
\* sends no request; when the action is not recognised it returns
\* (False, "Unknown action.") and sends no quota change or resize; when
\* the NetApp reports an error reason it returns (False, that reason).
\* (Stated for a vserver the handle has a connection to.)
C2_ModifyReturnsPair ==
    (IsCall("modify") /\ call.vserver \in VServers) =>
        /\ ret.kind = "return"
        /\ call.disk_limit \in BadSizes =>
              ret = BadSizeError(call.disk_limit) /\ log = <<>>
        /\ (call.disk_limit \notin BadSizes /\ ~Recognised(call.action)) =>
              ret = Tuple(FALSE, Lit("Unknown action.")) /\ log = <<>>
        /\ (call.disk_limit \notin BadSizes /\ Recognised(call.action)
              /\ answers.change.reason # None) =>
              ret = Tuple(FALSE, answers.change.reason)

-----------------------------------------------------------------------------
(* Properties of HMDCQuotas.convert_to_kb *)

DecimalDigits == {"0", "1", "2", "3", "4", "5", "6", "7", "8", "9"}
AsciiLetters ==
    {"A", "B", "C", "D", "E", "F", "G", "H", "I", "J", "K", "L", "M", "N", "O",
     "P", "Q", "R", "S", "T", "U", "V", "W", "X", "Y", "Z",
     "a", "b", "c", "d", "e", "f", "g", "h", "i", "j", "k", "l", "m", "n", "o",
     "p", "q", "r", "s", "t", "u", "v", "w", "x", "y", "z"}

\* The number of leading decimal digits of s, when a letter follows them
\* at once; 0 otherwise.
DigitsBeforeLetter(s) ==
    IF \E k \in 1..(Len(s) - 1) :
          /\ \A i \in 1..k : s[i] \in DecimalDigits
          /\ s[k + 1] \in AsciiLetters
    THEN CHOOSE k \in 1..(Len(s) - 1) :
          /\ \A i \in 1..k : s[i] \in DecimalDigits
          /\ s[k + 1] \in AsciiLetters
    ELSE 0

\* The value of the decimal numeral s[1..k], as a native integer (k is
\* small).
RECURSIVE Decimal(_, _)
Decimal(s, k) ==
    IF k = 0 THEN 0
    ELSE 10 * Decimal(s, k - 1)
           + (CHOOSE d \in 0..9 :
                 <<"0", "1", "2", "3", "4", "5", "6", "7", "8", "9">>[d + 1] = s[k])

MaxNative == 2 ^ 30 + (2 ^ 30 - 1)

\* r is n * m as limbs, for m a power of 1024: computed natively when the
\* product fits, by dropping a zero limb and a factor 1024 otherwise.
RECURSIVE IsProduct(_, _, _)
IsProduct(r, n, m) ==
    IF n <= MaxNative \div m
    THEN r = Limbs(n * m)
    ELSE r # <<>> /\ r[1] = 0 /\ IsProduct(Tail(r), n, m \div 1024)

Multiplier(letter) ==
    CASE letter \in {"K", "k"} -> 1
      [] letter \in {"M", "m"} -> 1024
      [] letter \in {"G", "g"} -> 1048576
      [] letter \in {"T", "t"} -> 1073741824

\* C3: for a decimal integer n followed by letters whose first letter is
\* K, M, G or T in either case, convert_to_kb returns (True, n * m) with
\* m = 1, 1024, 1048576, 1073741824; "5G" gives 5242880; what follows the
\* first unit letter does not change the result.
C3_ConvertKMGT ==
    IsCall("convert_to_kb") =>
        LET s == call.disk_limit
            k == DigitsBeforeLetter(s)
        IN  /\ (k > 0 /\ s[k + 1] \in {"K", "k", "M", "m", "G", "g", "T", "t"}) =>
                  /\ ret.kind = "return" /\ ret.ok /\ ret.val.t = "int"
                  /\ IsProduct(ret.val.n, Decimal(s, k), Multiplier(s[k + 1]))
            /\ (Len(s) >= 2 /\ s[1] = "5" /\ s[2] = "G") =>
                  ret = Tuple(TRUE, PyInt(Limbs(5242880)))

\* A size with characters after its unit letter is converted like the
\* size without them.
C3_Witness ==
    /\ IsCall("convert_to_kb")
    /\ call.disk_limit = <<"5", "g", "-">>
    /\ ret = Tuple(TRUE, PyInt(Limbs(5242880)))

\* C4: convert_to_kb returns "Unrecognized disk quota format." for an
\* input that does not start with digits immediately followed by a letter,
\* "Enter quota as terabytes or lower." for a unit starting with P, E, Z
\* or Y, "Unrecognized disk size unit." for any other first letter outside
\* B, K, M, G, T; it succeeds in no such case, and every input gets
\* exactly one of the four outcomes.
C4_ConvertErrors ==
    IsCall("convert_to_kb") =>
        LET s == call.disk_limit
            k == DigitsBeforeLetter(s)
            jerk == k > 0 /\ s[k + 1] \in {"P", "p", "E", "e", "Z", "z", "Y", "y"}
            usable == k > 0 /\ s[k + 1] \in {"B", "b", "K", "k", "M", "m",
                                             "G", "g", "T", "t"}
            success == /\ ret.kind = "return" /\ ret.ok
                       /\ ret.val.t \in {"int", "float"}
        IN  /\ k = 0 => ret = FormatError
            /\ jerk => ret = TooLargeError
            /\ (k > 0 /\ ~jerk /\ ~usable) => ret = UnitError
            /\ usable <=> success
            /\ Cardinality({e \in ConversionErrors : ret = e})
                  + (IF success THEN 1 ELSE 0) = 1

C4_Witness ==
    /\ IsCall("convert_to_kb")
    /\ call.disk_limit = <<"1", "P", "B">>
    /\ ret = TooLargeError

-----------------------------------------------------------------------------
(* Properties of get_vserver, group_lookup and the searches *)

VolumesOf(vserver) == {VOLUMES[vserver][j] : j \in 1..Len(VOLUMES[vserver])}
IsMessage(val) == val.t = "str"

\* C5: get_vserver(volume) returns (True, v) exactly when the volume is
\* listed under vserver v in VOLUMES and (False, message) exactly when it
\* is listed under none; every volume is listed under at most one vserver,
\* so the answer does not depend on the order of iteration.
C5_GetVserver ==
    IsCall("get_vserver") =>
        /\ \A v \in VServers :
              call.volume \in VolumesOf(v) <=> ret = Tuple(TRUE, Lit(v))
        /\ (\A v \in VServers : call.volume \notin VolumesOf(v))
              <=> (ret.kind = "return" /\ ~ret.ok /\ IsMessage(ret.val))
        /\ \A v, w \in VServers : v # w => VolumesOf(v) \cap VolumesOf(w) = {}
        /\ \A o \in Orders : get_vserver(call.volume, o) = ret

C5_Witness ==
    /\ IsCall("get_vserver")
    /\ call.volume = "www"
    /\ call.order[3] = "nc-hmdc-svm01-mgmt"
    /\ ret = Tuple(TRUE, Lit("nc-hmdc-svm01-mgmt"))

SaysNotFound(reason) == reason # None /\ reason.s \in NotFoundReasons
IsRealError(reason) == reason # None /\ reason.s \notin NotFoundReasons

\* C6: group_lookup turns every answer of the NetApp into exactly one of
\* (True, result) when the answer has no error reason, (False, None) when
\* the reason contains "entry doesn't exist", (False, reason) for any other
\* reason; on failure the second element is None only when the group was
\* not found.
C6_GroupLookup ==
    (IsCall("group_lookup") /\ Len(log) = 1) =>
        LET answer == answers.lookup[call.volume]
        IN  /\ answer.reason = None => ret = Tuple(TRUE, answer)
            /\ SaysNotFound(answer.reason) => ret = Tuple(FALSE, None)
            /\ IsRealError(answer.reason) => ret = Tuple(FALSE, answer.reason)
            /\ ret = Tuple(FALSE, None) => SaysNotFound(answer.reason)

C6_Witness ==
    /\ IsCall("group_lookup")
    /\ Len(log) = 1
    /\ answers.lookup[call.volume].reason
          = Str(<<"quota ", "entry doesn't exist", " on volume">>)
    /\ ret = Tuple(FALSE, None)

\* The (vserver, volume) pairs in the order a search of every vserver
\* visits them.
RECURSIVE VisitOrder(_, _)
VisitOrder(order, i) ==
    IF i > Len(order) THEN <<>>
    ELSE [j \in 1..Len(VOLUMES[order[i]]) |-> <<order[i], VOLUMES[order[i]][j]>>]
            \o VisitOrder(order, i + 1)

\* The pairs the call in progress visits if nothing stops it.
Visits ==
    IF call.op = "search_volumes"
    THEN [j \in 1..Len(VOLUMES[call.vserver]) |->
             <<call.vserver, VOLUMES[call.vserver][j]>>]
    ELSE VisitOrder(call.order, 1)

Lookup(pair) == QuotaRequest(GetCommand, pair[1], pair[2], call.group)
ReasonOn(pair) == answers.lookup[pair[2]].reason
FoundOn(v) == {vol \in VolumesOf(v) : answers.lookup[vol].reason = None}

IsFullSearch == IsCall("search_vservers") /\ call.volume = None

\* C7: when no lookup returns a real error, search_vservers(group) with
\* no volume queries every volume of every vserver exactly once, in
\* sequence, and returns (True, matches), where matches[v][vol] is present
\* exactly for the pairs on which the group has an entry; a vserver with no
\* such volume is absent, and matches is empty exactly when the group is
\* found nowhere.
C7_SearchAll ==
    (IsFullSearch /\ \A vol \in AllVolumes : ~IsRealError(answers.lookup[vol].reason))
    =>  /\ log = [i \in 1..Len(Visits) |-> Lookup(Visits[i])]
        /\ \A v \in VServers : \A vol \in VolumesOf(v) :
              Cardinality({i \in 1..Len(log) :
                              log[i].vserver = v /\ log[i].volume = vol}) = 1
        /\ ret.kind = "return" /\ ret.ok
        /\ DOMAIN ret.val = {v \in VServers : FoundOn(v) # {}}
        /\ \A v \in DOMAIN ret.val : DOMAIN ret.val[v] = FoundOn(v)
        /\ ret.val = EmptyDict <=> \A v \in VServers : FoundOn(v) = {}

\* The group is on one volume of one vserver only; the other vservers
\* are left out of the result.
C7_Witness ==
    /\ IsFullSearch
    /\ \A vol \in AllVolumes : ~IsRealError(answers.lookup[vol].reason)
    /\ FoundOn("nc-rce-svm01-mgmt") = {"projects_ci3"}
    /\ FoundOn("nc-hmdc-svm01-mgmt") = {}
    /\ FoundOn("nc-rshiny-svm01-mgmt") = {}
    /\ ret.kind = "return" /\ ret.ok
    /\ DOMAIN ret.val = {"nc-rce-svm01-mgmt"}
    /\ Len(log) = Cardinality(AllVolumes)

Failing == {i \in 1..Len(Visits) : IsRealError(ReasonOn(Visits[i]))}
FirstFailing == CHOOSE i \in Failing : \A j \in Failing : i <= j

\* C8: if a lookup of search_volumes or search_vservers returns a real
\* error, the search stops there and returns (False, reason) with the
\* reason of the first failing volume in sequence; no later volume or
\* vserver is queried; and a 'group not found' answer is never reported as
\* a failure.
C8_SearchStopsAtError ==
    /\ ((IsCall("search_volumes") /\ call.vserver \in VServers) \/ IsFullSearch) =>
          /\ Failing # {} =>
                /\ ret = Tuple(FALSE, ReasonOn(Visits[FirstFailing]))
                /\ log = [i \in 1..FirstFailing |-> Lookup(Visits[i])]
          /\ Failing = {} => (ret.kind = "return" /\ ret.ok)
    /\ (IsCall("search_vservers") /\ call.volume # None /\ Len(log) = 1) =>
          LET reason == answers.lookup[call.volume.s[1]].reason
          IN  /\ IsRealError(reason) => ret = Tuple(FALSE, reason)
              /\ SaysNotFound(reason) => ret = Tuple(TRUE, EmptyDict)

\* The search fails on the second vserver it visits, after a volume on
\* which the group is absent, and leaves the third vserver alone although
\* it fails too.
C8_Witness ==
    /\ IsFullSearch
    /\ call.order = <<"nc-rce-svm01-mgmt", "nc-hmdc-svm01-mgmt",
                      "nc-rshiny-svm01-mgmt">>
    /\ SaysNotFound(answers.lookup["projects"].reason)
    /\ Failing = {5, 6}
    /\ ret = Tuple(FALSE, Str(<<"volume ", "www", " is offline">>))
    /\ Len(log) = 5

-----------------------------------------------------------------------------
(* Properties of quotasUtil *)

\* C9: modify_quota requires a volume: with no volume it returns
\* (False, "Error: You need to specify a volume.") and sends no request
\* to the NetApp; with a volume that resolves to no vserver it returns
\* (False, error) and sends no request either.  Every choice of --volume
\* resolves to a vserver through get_vserver.
C9_ModifyQuotaNeedsVolume ==
    /\ IsCall("modify_quota") =>
          /\ call.args.volume = None =>
                /\ ret = Tuple(FALSE, Lit("Error: You need to specify a volume."))
                /\ log = <<>>
          /\ (call.args.volume # None
                /\ \A v \in VServers : call.args.volume.s[1] \notin VolumesOf(v)) =>
                /\ ret.kind = "return" /\ ~ret.ok /\ IsMessage(ret.val)
                /\ ret.val # Lit("Error: You need to specify a volume.")
                /\ log = <<>>
    /\ \A volume \in CliVolumes : \A o \in Orders :
          /\ get_vserver(volume, o).ok
          /\ volume \in VolumesOf(get_vserver(volume, o).val.s[1])

C9_Witness ==
    /\ IsCall("modify_quota")
    /\ call.args.volume = None
    /\ call.args.action = "A"
    /\ ret = Tuple(FALSE, Lit("Error: You need to specify a volume."))
    /\ log = <<>>

IsErrorLine(line) == "t" \in DOMAIN line /\ line.t = "str"
Gets == {i \in 1..Len(log) : IsGet(log[i])}
Changes == {i \in 1..Len(log) : IsChange(log[i])}

\* C10: every run of the script is dispatched to one action.  S performs
\* a search and no quota change.  A and M perform the quota change first
\* and search the same group and volume only after the change succeeded.
\* D performs the delete and never searches afterwards.  After a failed A,
\* D or M the error is printed and no search is run.
C10_Dispatch ==
    IsCall("quotasUtil") =>
        LET args == call.args
            succeeded == /\ Changes # {}
                         /\ answers.change.reason = None
        IN  /\ ret.kind = "exit"
            /\ args.action = "S" => (Gets # {} /\ Changes = {} /\ Resizes = {})
            /\ (args.action \in {"A", "M"} /\ succeeded) =>
                  /\ Len(log) = 3
                  /\ IsChange(log[1]) /\ IsResize(log[2]) /\ IsGet(log[3])
                  /\ log[3].target = args.group /\ log[1].target = args.group
                  /\ log[3].volume = args.volume.s[1]
                  /\ log[1].volume = args.volume.s[1]
            /\ args.action = "D" => Gets = {}
            /\ (args.action \in {"A", "D", "M"} /\ ~succeeded) =>
                  /\ Gets = {}
                  /\ Len(ret.out) = 1 /\ IsErrorLine(ret.out[1])

-----------------------------------------------------------------------------
(* Properties of the limits modify sends *)

\* The requests of the call that carry a disk limit and a file limit.
LimitRequests == {i \in 1..Len(log) : "disk" \in DOMAIN log[i]}

\* q is the integer x divided by 16, rounded down.
IsSixteenth(q, x) == \E r \in 0..15 : BigAdd(BigMulSmall(q, 16), <<r>>) = x

\* C11: in modify, when no disk size is given the default quota 5G
\* (5242880 KB) is used; when no file limit is given the file limit sent
\* to the NetApp is the converted disk quota in KB divided by 16 (327680
\* for the default quota); a file limit given by the caller is sent
\* unchanged; and the disk limit sent is always an integer number of KB,
\* as convert_to_kb documents its result.
C11_ModifyLimits ==
    IsCall("modify") =>
        \A i \in LimitRequests :
            /\ log[i].disk.t = "int"
            /\ call.disk_limit = None => log[i].disk = PyInt(Limbs(5242880))
            /\ call.file_limit = None =>
                  /\ log[i].files.t = "int"
                  /\ IsSixteenth(log[i].files.n, log[i].disk.n)
            /\ (call.disk_limit = None /\ call.file_limit = None) =>
                  log[i].files = PyInt(Limbs(327680))
            /\ call.file_limit # None => log[i].files = call.file_limit

====
